---- MODULE Spec2Model ----
(***************************************************************************)
(* A model of the zero-copy pinning cache of src/src/data_structures.rs    *)
(* (ZeroCopyCache, its segment registry, page-address index, the MFU and   *)
(* NoAlg replacement policies, the pin/unpin reconciler and the fast path) *)
(* and of the page helpers of src/src/pagesizes.rs.                        *)
(***************************************************************************)
EXTENDS Integers, Sequences, FiniteSets, TLC

\* ------------------------------------------------------------------ bounds

\* Largest access count the MFU policy is driven to for one segment.
MaxCount == 2
\* Largest number of replies Some(..) a caller leaves uncompleted per buffer.
MaxOwed == 2
\* Largest number of segments one initialize_slab call of the registration
\* specification may create.
MaxSegs == 4
\* Largest capacity handed to UnboundedLRUCache::new.
MaxLruLen == 3
\* Largest key handed to UnboundedLRUCache::put and get (keys are 1 .. MaxKey).
MaxKey == 4
\* Largest number of put calls made on one UnboundedLRUCache.
MaxPuts == 4

\* --------------------------------------------------------- pagesizes.rs

PGSIZE_4KB == 4096
PGSIZE_2MB == 2097152
PGSIZE_1GB == 1073741824

\* addr & PGMASK_x: the low bits of a non-negative address.
pgoff4kb(addr) == addr % PGSIZE_4KB
pgoff2mb(addr) == addr % PGSIZE_2MB
pgoff1gb(addr) == addr % PGSIZE_1GB

\* closest_2mb_page with the 4 KiB mask in place of the 2 MiB mask.
closest_2mb_page_4k_mask(addr) == addr - pgoff4kb(addr)

\* closest_4k_page rounding to the nearest page start in place of the one below.
closest_4k_page_nearest(addr) ==
    IF 2 * pgoff4kb(addr) >= PGSIZE_4KB
    THEN addr - pgoff4kb(addr) + PGSIZE_4KB
    ELSE addr - pgoff4kb(addr)

closest_4k_page(addr) == addr - pgoff4kb(addr)
closest_2mb_page(addr) == addr - pgoff2mb(addr)
closest_1g_page(addr) == addr - pgoff1gb(addr)

get_page_size_as_num(page_size) ==
    CASE page_size = "PG4KB" -> PGSIZE_4KB
      [] page_size = "PG2MB" -> PGSIZE_2MB
      [] page_size = "PG1GB" -> PGSIZE_1GB

\* ------------------------------------------------------------ the inputs

\* The slab handed to the cache that worker threads and the reconciler run
\* on: a page-aligned pool of two 4 KiB pages.
SlabA == [id |-> 1, start |-> 268435456, total_num_pages |-> 2, page_size |-> "PG4KB"]
MainSlabs == {SlabA}

\* Slabs of the registration specification: every page size, sizes that are
\* and are not multiples of the segment sizes tried.  Disjoint, page-aligned.
SlabB == [id |-> 2, start |-> 268451840, total_num_pages |-> 1, page_size |-> "PG4KB"]
SlabC == [id |-> 3, start |-> 268468224, total_num_pages |-> 3, page_size |-> "PG4KB"]
SlabD == [id |-> 4, start |-> 805306368, total_num_pages |-> 2, page_size |-> "PG2MB"]
SlabE == [id |-> 5, start |-> 1073741824, total_num_pages |-> 1, page_size |-> "PG1GB"]
SlabF == [id |-> 6, start |-> 270532608, total_num_pages |-> 512, page_size |-> "PG4KB"]
RegSlabs == {SlabA, SlabB, SlabC, SlabD, SlabE, SlabF}

AllSlabs == MainSlabs \cup RegSlabs

\* Arguments tried for ZeroCopyCache::new (bytes).
LimitArgs == {0, 4096, 8192, 12288, 2097152, 4194304, 1073741824}
SizeArgs == {0, 4096, 6144, 8192, 12288, 1048576, 2097152, 1073741824}

\* Buffers (start addresses) handed to the fast path: the first byte of the
\* slab's first page, the last byte of its second page and one outside all
\* managed memory.
Bufs == {268435456, 268443647, 536870912}

NoId == <<0, 0>>

\* usize::MAX, the value a usize at 0 wraps to; the largest integer of the
\* model stands for 2^64 - 1.
USIZE_MAX == 2147483647

\* pub const DEFAULT_CACHE_SIZE: the capacity of UnboundedLRUCache::default().
DEFAULT_CACHE_SIZE == 10000

\* The threads: two datapath workers calling the fast path and completing
\* I/O, and the reconciler.  Free is the owner of a mutex nobody holds.
Workers == {"w1", "w2"}
Reconciler == "reconciler"
Free == "free"

\* The threads of the locking specification: the two workers on the fast path,
\* a thread completing I/O, the reconciler and a thread registering slabs.
LockThreads == Workers \cup {"completer", Reconciler, "initializer"}

\* --------------------------------------------------------------- the state

VARIABLES
    newArgs,             \* the (pinning_limit, segment_size) handed to new
    newResult,           \* "none" before new, then "Ok", "InvalidConfig" or "Panic"
    pinning_limit,       \* ZeroCopyCache.pinning_limit
    segment_size,        \* ZeroCopyCache.segment_size
    pin_on_demand,       \* ZeroCopyCache.pin_on_demand
    policy,              \* the CacheBuilder type: "Mfu" or "NoAlg"
    limit,               \* CacheBuilder.limit
    access_counts,       \* MfuCache.access_counts: id -> count
    hashOrder,           \* iteration order of access_counts (a sequence of its keys)
    timestamps,          \* OnDemandLruCache.timestamps: its keys, oldest Instant first
    current_pinned_list, \* CacheBuilder.current_pinned_list
    segments,            \* ZeroCopyCache.segments: id -> the slot's contents
    slotLock,            \* id -> the thread holding the slot's mutex, or Free
    page_cache_2mb,      \* page address -> id
    page_cache_4kb,
    page_cache_1gb,
    initResult,          \* slab id -> result of its initialize_slab call
    wpc,                 \* worker -> position in its current call
    wbuf,                \* worker -> buffer of its current call
    wid,                 \* worker -> segment id its current call resolved
    lastReply,           \* the reply of the fast-path call that returned last
    owed,                \* buffer -> Some replies not yet followed by a completion
    rpc,                 \* the reconciler's position in update_pinned_list
    rNew,                \* new_pinned_list of the pass
    rCur,                \* current_pinned_list read by the pass
    rUnpin,              \* departures not yet unpinned in this pass
    rPin,                \* arrivals not yet pinned in this pass
    rItem,               \* the id the reconciler is pinning or unpinning
    passOps,             \* Slab::pin_segment and unpin_segment calls of the pass
    sincePass,           \* since the last pass began: "quiet" (nothing), "init" (only
                         \* initialize_slab pinned segments), else "dirty"
    passPrev,            \* sincePass as the pass in progress found it
    lastCommitted,       \* the list the last completed pass committed
    twin_access_counts,  \* access_counts of a second MfuCache of the same limit
    twin_hashOrder,      \* iteration order of the second MfuCache's access_counts
    afterReset,          \* whether reset() was called on the two MfuCaches
    cloned,              \* whether clone() has returned a second handle
    clone_segments,      \* the keys of the second handle's segments map
    clone_page_cache_2mb, \* the second handle's page maps
    clone_page_cache_4kb,
    clone_page_cache_1gb,
    rHandle,             \* the handle the pass in progress was called on
    hit_count,           \* UnboundedLRUCache.hit_count
    total_count,         \* UnboundedLRUCache.total_count
    miss_count,          \* UnboundedLRUCache.miss_count
    lru_len,             \* UnboundedLRUCache.len
    lru_cache,           \* UnboundedLRUCache.cache: its entries, least recently used first
    lru_ret,             \* what the last put or get returned: <<"None">> or <<"Some", ..>>
    lru_puts,            \* the (key, value) pairs handed to put since new, in call order
    lru_gets,            \* the number of get calls since new
    lk_owner,            \* mutex -> the thread holding it, Free or "poisoned"
    lk_script,           \* thread -> the lock and pin steps of its call in progress
    lk_pc,               \* thread -> index of its next step in lk_script
    lk_seg               \* the slot the threads share: is_pinned, in_flight, quiescing

cfgVars == <<newArgs, newResult, pinning_limit, segment_size, pin_on_demand, policy, limit>>
policyVars == <<access_counts, hashOrder, timestamps, current_pinned_list>>
registryVars == <<segments, slotLock, page_cache_2mb, page_cache_4kb, page_cache_1gb, initResult>>
workerVars == <<wpc, wbuf, wid, lastReply, owed>>
reconVars == <<rpc, rHandle, rNew, rCur, rUnpin, rPin, rItem, passOps, passPrev>>
histVars == <<sincePass, lastCommitted>>
twinVars == <<twin_access_counts, twin_hashOrder, afterReset>>
cloneVars == <<cloned, clone_segments, clone_page_cache_2mb, clone_page_cache_4kb,
               clone_page_cache_1gb>>
\* The metrics counters: written where the struct is built and by no function
\* of the repository.
metricVars == <<hit_count, total_count, miss_count>>
lruVars == <<lru_len, lru_cache, lru_ret, lru_puts, lru_gets>>
lockVars == <<lk_owner, lk_script, lk_pc, lk_seg>>
extVars == <<twinVars, cloneVars, metricVars, lruVars, lockVars>>
vars == <<cfgVars, policyVars, registryVars, workerVars, reconVars, histVars, extVars>>

\* ------------------------------------------------------ ZeroCopyCache::new

\* ensure!(segment_size <= pinning_limit, ..)
SizeWithinLimit(pl, ss) == ss <= pl

\* ensure!(segment_size == 0 && pinning_limit == 0 || pinning_limit % segment_size == 0, ..):
\* "panic" when the remainder is taken with a zero divisor.
LimitIsMultiple(pl, ss) ==
    IF ss = 0 /\ pl = 0 THEN "true"
    ELSE IF ss = 0 THEN "panic"
    ELSE IF pl % ss = 0 THEN "true" ELSE "false"

\* CacheBuilder::new(pinning_limit / segment_size): whether the division
\* panics (a zero divisor), and its value when it does not.
PolicyLimitPanics(pl, ss) == ss = 0
PolicyLimit(pl, ss) == pl \div ss

\* The outcome of ZeroCopyCache::new(pinning_limit, segment_size, ..).
NewOutcome(pl, ss) ==
    IF ~SizeWithinLimit(pl, ss) THEN "InvalidConfig"
    ELSE IF LimitIsMultiple(pl, ss) = "panic" THEN "Panic"
    ELSE IF LimitIsMultiple(pl, ss) = "false" THEN "InvalidConfig"
    ELSE IF PolicyLimitPanics(pl, ss) THEN "Panic"
    ELSE "Ok"

\* ------------------------------------------------------------ the policies

\* The sequences that list every element of S exactly once.
Perms(S) ==
    {f \in [1 .. Cardinality(S) -> S] : \A x \in S : \E i \in 1 .. Cardinality(S) : f[i] = x}

\* MfuCache::update_access: counts(id) + 1, a missing key counting as 0.
MfuCountAfter(counts, id) == IF id \in DOMAIN counts THEN counts[id] + 1 ELSE 1

MfuUpdateAccess(id) ==
    /\ access_counts' = [k \in DOMAIN access_counts \cup {id} |->
                            IF k = id THEN MfuCountAfter(access_counts, id)
                            ELSE access_counts[k]]
    /\ IF id \in DOMAIN access_counts
       THEN hashOrder' = hashOrder
       ELSE hashOrder' \in Perms(DOMAIN access_counts \cup {id})

\* OnDemandLruCache::update_access: self.timestamps.insert(id, Instant::now()),
\* the key becoming the one with the latest Instant.
LruUpdateAccess(id) ==
    timestamps' = Append(SelectSeq(timestamps, LAMBDA k : k # id), id)

\* CacheBuilder::update_access under the cache_builder mutex (a no-op for
\* NoAlgCache).
update_access(id) ==
    CASE policy = "Mfu" -> MfuUpdateAccess(id) /\ UNCHANGED timestamps
      [] policy = "OnDemandLru" -> LruUpdateAccess(id) /\ UNCHANGED <<access_counts, hashOrder>>
      [] OTHER -> UNCHANGED <<access_counts, hashOrder, timestamps>>

\* The comparison of the sort with its arguments exchanged: ascending counts.
CountBeforeAscending(counts, x, y) == counts[x] < counts[y]

\* b.1.partial_cmp(&a.1): whether entry x sorts strictly before entry y.
CountBefore(counts, x, y) == counts[x] > counts[y]

\* Insert x into the sorted sequence s behind every entry it does not sort
\* strictly before (slice::sort_by is stable).
RECURSIVE InsertSorted(_, _, _)
InsertSorted(counts, s, x) ==
    IF s = <<>> THEN <<x>>
    ELSE IF CountBefore(counts, x, s[Len(s)])
         THEN Append(InsertSorted(counts, SubSeq(s, 1, Len(s) - 1), x), s[Len(s)])
         ELSE Append(s, x)

RECURSIVE SortByCount(_, _)
SortByCount(counts, s) ==
    IF s = <<>> THEN <<>>
    ELSE InsertSorted(counts, SortByCount(counts, SubSeq(s, 1, Len(s) - 1)), s[Len(s)])

\* enumerate().take_while(|(i, _)| *i < self.limit)
TakeLimit(s, n) == {s[i] : i \in {j \in 1 .. Len(s) : j - 1 < n}}

\* The result of MfuCache::return_top_segments_to_pin for a count map iterated
\* in the given order.
MfuTop(counts, order, n) == TakeLimit(SortByCount(counts, order), n)

MfuTopSegments == MfuTop(access_counts, hashOrder, limit)

\* The MFU computation for every policy type.
TopSegmentsOfCounts == MfuTopSegments

\* CacheBuilder::return_top_segments_to_pin
return_top_segments_to_pin ==
    IF policy = "Mfu" THEN MfuTopSegments ELSE current_pinned_list

\* MfuCache::reset: every count becomes 0, no key is removed.
MfuReset ==
    /\ access_counts' = [k \in DOMAIN access_counts |-> 0]
    /\ UNCHANGED hashOrder

\* CacheBuilder::reset under the cache_builder mutex (a no-op for NoAlgCache).
reset ==
    IF policy = "Mfu" THEN MfuReset ELSE UNCHANGED <<access_counts, hashOrder>>

\* CacheBuilder::current_bytes_pinned(segment_size)
current_bytes_pinned == Cardinality(current_pinned_list) * segment_size

\* --------------------------------------------------------- the page index

Lookup(cache, key) == IF key \in DOMAIN cache THEN cache[key] ELSE NoId

\* ZeroCopyCache::get_segment_id: the 2 MiB map, then the 4 KiB map, then the
\* 1 GiB map; NoId stands for None.
SegmentIdIn(cache_2mb, cache_4kb, cache_1gb, addr) ==
    IF closest_2mb_page(addr) \in DOMAIN cache_2mb
    THEN cache_2mb[closest_2mb_page(addr)]
    ELSE IF closest_4k_page(addr) \in DOMAIN cache_4kb
    THEN cache_4kb[closest_4k_page(addr)]
    ELSE IF closest_1g_page(addr) \in DOMAIN cache_1gb
    THEN cache_1gb[closest_1g_page(addr)]
    ELSE NoId

\* get_segment_id on the handle that new returned.
get_segment_id(addr) == SegmentIdIn(page_cache_2mb, page_cache_4kb, page_cache_1gb, addr)

\* get_segment_id on the handle that clone() returned.
clone_get_segment_id(addr) ==
    SegmentIdIn(clone_page_cache_2mb, clone_page_cache_4kb, clone_page_cache_1gb, addr)

\* DatapathSegment::get_4kb_pages / get_2mb_pages / get_1gb_pages: the page
\* start addresses of a segment, empty for another page size.
PagesOf(seg, page_size) ==
    IF seg.page_size = page_size
    THEN {seg.start_address + get_page_size_as_num(seg.page_size) * i :
             i \in 0 .. seg.num_pages - 1}
    ELSE {}

\* ------------------------------------------------------- initialize_slab

MempoolSize(slab) == slab.total_num_pages * get_page_size_as_num(slab.page_size)

\* The size check of initialize_slab without its multiple-of test.
SlabSizeOkNoMultiple(slab) == MempoolSize(slab) >= segment_size

\* ensure!(mempool_size >= self.segment_size && mempool_size % self.segment_size == 0, ..)
SlabSizeOk(slab) ==
    /\ MempoolSize(slab) >= segment_size
    /\ MempoolSize(slab) % segment_size = 0

NumRegistrations(slab) == MempoolSize(slab) \div segment_size
PagesPerRegistration(slab) == slab.total_num_pages \div NumRegistrations(slab)
RegSize(slab) == PagesPerRegistration(slab) * get_page_size_as_num(slab.page_size)

\* if register_at_start { if self.current_bytes_pinned() < self.pinning_limit {..} }:
\* the policy's list is read for every segment and written only after the last.
RegisterNow(register_at_start) ==
    register_at_start /\ current_bytes_pinned < pinning_limit

\* DatapathSegment::new for registration reg, with in_flight 0 and quiescing false.
NewSlot(slab, reg, register_at_start) ==
    [start_address |-> slab.start + RegSize(slab) * reg,
     num_pages |-> PagesPerRegistration(slab),
     page_size |-> slab.page_size,
     pinned |-> RegisterNow(register_at_start),
     in_flight |-> 0,
     quiescing |-> FALSE]

NewIds(slab) == {<<slab.id, reg>> : reg \in 0 .. NumRegistrations(slab) - 1}

\* self.page_cache_x.insert(page, (slab.get_slab_id(), reg)) for every page of
\* segment reg that has this page size: an insert of a present key replaces.
InsertPages(cache, slab, reg, page_size) ==
    [k \in PagesOf(NewSlot(slab, reg, FALSE), page_size) |-> <<slab.id, reg>>] @@ cache

\* The page map of one page size after the first n segments of the slab are
\* inserted in index order.
RECURSIVE CacheAfterRegs(_, _, _, _)
CacheAfterRegs(cache, slab, page_size, n) ==
    IF n = 0 THEN cache
    ELSE InsertPages(CacheAfterRegs(cache, slab, page_size, n - 1), slab, n - 1, page_size)

CacheAfter(cache, slab, page_size) ==
    CacheAfterRegs(cache, slab, page_size, NumRegistrations(slab))

AllIdle == rpc = "idle" /\ \A w \in Workers : wpc[w] = "idle"

\* ZeroCopyCache::initialize_slab(slab, register_at_start, priv_info), called
\* while no other call on the cache is in progress.
initialize_slab(slab, register_at_start) ==
    /\ newResult = "Ok"
    /\ initResult[slab.id] = "none"
    /\ AllIdle
    /\ IF ~SlabSizeOk(slab)
       THEN /\ initResult' = [initResult EXCEPT ![slab.id] = "InvalidSlab"]
            /\ UNCHANGED <<segments, slotLock, page_cache_2mb, page_cache_4kb,
                           page_cache_1gb, current_pinned_list, sincePass>>
       ELSE /\ NumRegistrations(slab) <= MaxSegs
            /\ initResult' = [initResult EXCEPT ![slab.id] = "Ok"]
            /\ segments' = [id \in DOMAIN segments \cup NewIds(slab) |->
                              IF id \in NewIds(slab)
                              THEN NewSlot(slab, id[2], register_at_start)
                              ELSE segments[id]]
            /\ slotLock' = [id \in DOMAIN segments \cup NewIds(slab) |->
                              IF id \in NewIds(slab) THEN Free ELSE slotLock[id]]
            /\ page_cache_4kb' = CacheAfter(page_cache_4kb, slab, "PG4KB")
            /\ page_cache_2mb' = CacheAfter(page_cache_2mb, slab, "PG2MB")
            /\ page_cache_1gb' = CacheAfter(page_cache_1gb, slab, "PG1GB")
            /\ current_pinned_list' =
                  IF RegisterNow(register_at_start)
                  THEN current_pinned_list \cup NewIds(slab)
                  ELSE current_pinned_list
            /\ sincePass' = IF sincePass = "quiet" /\ RegisterNow(register_at_start)
                            THEN "init" ELSE sincePass
    /\ UNCHANGED <<extVars, cfgVars, access_counts, hashOrder, timestamps, workerVars, reconVars, lastCommitted>>

\* ------------------------------------------------------------ the fast path

SetSlot(id, slot) == segments' = [segments EXCEPT ![id] = slot]
Acquire(id, t) == slotLock' = [slotLock EXCEPT ![id] = t]
Release(id) == slotLock' = [slotLock EXCEPT ![id] = Free]

NoteAccess == sincePass' = "dirty"

\* The model drives a segment's access count and a buffer's uncompleted
\* replies no further than the bounds.
WithinBounds(buf, id) ==
    /\ owed[buf] < MaxOwed
    /\ policy = "Mfu" => MfuCountAfter(access_counts, id) <= MaxCount

\* record_access_and_get_io_info_if_pinned, up to the try_lock: resolve the
\* buffer, return None for unmanaged memory, else update_access.
FastPathCall(w, buf) ==
    /\ newResult = "Ok"
    /\ ~pin_on_demand
    /\ wpc[w] = "idle"
    /\ LET id == get_segment_id(buf) IN
       IF id = NoId
       THEN /\ lastReply' = "None"
            /\ UNCHANGED <<wpc, wbuf, wid, access_counts, hashOrder, timestamps, sincePass>>
       ELSE /\ WithinBounds(buf, id)
            /\ update_access(id)
            /\ NoteAccess
            /\ wpc' = [wpc EXCEPT ![w] = "trylock"]
            /\ wbuf' = [wbuf EXCEPT ![w] = buf]
            /\ wid' = [wid EXCEPT ![w] = id]
            /\ UNCHANGED lastReply
    /\ UNCHANGED <<extVars, cfgVars, current_pinned_list, registryVars, owed, reconVars, lastCommitted>>

WorkerReturns(w, reply) ==
    /\ wpc' = [wpc EXCEPT ![w] = "idle"]
    /\ lastReply' = reply
    /\ wbuf' = [wbuf EXCEPT ![w] = 0]
    /\ wid' = [wid EXCEPT ![w] = NoId]
    /\ owed' = IF reply = "Some" THEN [owed EXCEPT ![wbuf[w]] = @ + 1] ELSE owed

\* The fast path with lock() in place of try_lock(): the call waits for the
\* slot's mutex.
FastPathLockWaits(w) ==
    /\ wpc[w] = "trylock"
    /\ IF wid[w] \notin DOMAIN segments
       THEN /\ WorkerReturns(w, "None")
            /\ UNCHANGED slotLock
       ELSE /\ slotLock[wid[w]] = Free
            /\ Acquire(wid[w], w)
            /\ wpc' = [wpc EXCEPT ![w] = "locked"]
            /\ UNCHANGED <<wbuf, wid, lastReply, owed>>
    /\ UNCHANGED <<extVars, cfgVars, policyVars, segments, page_cache_2mb, page_cache_4kb,
                   page_cache_1gb, initResult, reconVars, sincePass, lastCommitted>>

\* self.segments.get(&segment_id) and segment_arc.try_lock(): None when the id
\* has no slot or another thread holds the slot's mutex.
FastPathTryLock(w) ==
    /\ wpc[w] = "trylock"
    /\ IF wid[w] \notin DOMAIN segments \/ slotLock[wid[w]] # Free
       THEN /\ WorkerReturns(w, "None")
            /\ UNCHANGED slotLock
       ELSE /\ Acquire(wid[w], w)
            /\ wpc' = [wpc EXCEPT ![w] = "locked"]
            /\ UNCHANGED <<wbuf, wid, lastReply, owed>>
    /\ UNCHANGED <<extVars, cfgVars, policyVars, segments, page_cache_2mb, page_cache_4kb,
                   page_cache_1gb, initResult, reconVars, sincePass, lastCommitted>>

\* if mutex.0.is_pinned() { mutex.1 += 1; ..
FastPathInFlight(slot) ==
    IF slot.pinned
    THEN IF slot.in_flight = USIZE_MAX THEN 0 ELSE slot.in_flight + 1
    ELSE slot.in_flight

\* The reply of the fast path without its test of quiescing.
FastPathReplyIgnoringQuiescing(slot) == IF slot.pinned THEN "Some" ELSE "None"

\* .. if mutex.2 { return Ok(None); } return Ok(Some(..)) } else { return Ok(None) }
FastPathReply(slot) ==
    IF slot.pinned
    THEN IF slot.quiescing THEN "None" ELSE "Some"
    ELSE "None"

\* The critical section of the fast path, up to the release of the mutex.
FastPathBody(w) ==
    /\ wpc[w] = "locked"
    /\ LET slot == segments[wid[w]] IN
       /\ SetSlot(wid[w], [slot EXCEPT !.in_flight = FastPathInFlight(slot)])
       /\ WorkerReturns(w, FastPathReply(slot))
    /\ Release(wid[w])
    /\ UNCHANGED <<extVars, cfgVars, policyVars, page_cache_2mb, page_cache_4kb,
                   page_cache_1gb, initResult, reconVars, sincePass, lastCommitted>>

\* ------------------------------------------------ record_and_pin_on_demand

\* CacheBuilder::insert_and_evict: unimplemented!() in OnDemandLruCache and in
\* MfuCache, unreachable!() in NoAlgCache.
insert_and_evict(id) ==
    CASE policy = "OnDemandLru" -> "panic"
      [] policy = "Mfu" -> "panic"
      [] policy = "NoAlg" -> "panic"

\* record_access_and_get_io_info_if_pinned with pin_on_demand set: None for
\* unmanaged memory, else record_and_pin_on_demand: update_access, then
\* insert_and_evict, whose panic ends the calling thread before any unpin or
\* pin.
DemandCall(w, buf) ==
    /\ newResult = "Ok"
    /\ pin_on_demand
    /\ wpc[w] = "idle"
    /\ LET id == get_segment_id(buf) IN
       IF id = NoId
       THEN /\ lastReply' = "None"
            /\ UNCHANGED <<wpc, access_counts, hashOrder, timestamps, sincePass>>
       ELSE /\ WithinBounds(buf, id)
            /\ update_access(id)
            /\ NoteAccess
            /\ insert_and_evict(id) = "panic"
            /\ lastReply' = "Panic"
            /\ wpc' = [wpc EXCEPT ![w] = "panicked"]
    /\ UNCHANGED <<extVars, cfgVars, current_pinned_list, registryVars, wbuf, wid, owed,
                   reconVars, lastCommitted>>

\* ------------------------------------------------- record_io_completion

\* The caller completes an I/O it was given Some for: get_segment_id(addr)
\* and self.segments.get(&segment_id).
CompletionCall(w, buf) ==
    /\ wpc[w] = "idle"
    /\ owed[buf] > 0
    /\ owed' = [owed EXCEPT ![buf] = @ - 1]
    /\ IF get_segment_id(buf) \in DOMAIN segments
       THEN /\ wpc' = [wpc EXCEPT ![w] = "complete"]
            /\ wbuf' = [wbuf EXCEPT ![w] = buf]
            /\ wid' = [wid EXCEPT ![w] = get_segment_id(buf)]
       ELSE UNCHANGED <<wpc, wbuf, wid>>
    /\ UNCHANGED <<extVars, cfgVars, policyVars, registryVars, lastReply, reconVars, sincePass, lastCommitted>>

\* record_io_completion called whether or not the buffer was given Some: the
\* model stops completing on a slot whose counter has left 0 .. MaxOwed.
StrayCompletionCall(w, buf) ==
    /\ newResult = "Ok"
    /\ wpc[w] = "idle"
    /\ owed' = [owed EXCEPT ![buf] = IF @ > 0 THEN @ - 1 ELSE @]
    /\ IF get_segment_id(buf) \in DOMAIN segments
       THEN /\ segments[get_segment_id(buf)].in_flight <= MaxOwed
            /\ wpc' = [wpc EXCEPT ![w] = "complete"]
            /\ wbuf' = [wbuf EXCEPT ![w] = buf]
            /\ wid' = [wid EXCEPT ![w] = get_segment_id(buf)]
       ELSE UNCHANGED <<wpc, wbuf, wid>>
    /\ UNCHANGED <<extVars, cfgVars, policyVars, registryVars, lastReply, reconVars, sincePass, lastCommitted>>

\* segment_arc.lock()
CompletionLock(w) ==
    /\ wpc[w] = "complete"
    /\ slotLock[wid[w]] = Free
    /\ Acquire(wid[w], w)
    /\ wpc' = [wpc EXCEPT ![w] = "completing"]
    /\ UNCHANGED <<extVars, cfgVars, policyVars, segments, page_cache_2mb, page_cache_4kb,
                   page_cache_1gb, initResult, wbuf, wid, lastReply, owed, reconVars,
                   sincePass, lastCommitted>>

\* .1 -= 1 on a usize: the difference, and at 0 what the build makes of the
\* overflow: a panic with overflow checks (the default of a debug build), the
\* wrapped value without them (the default of a release build).
CompletionOutcomes(slot) == IF slot.in_flight = 0 THEN {"panic", "wrap"} ELSE {"sub"}

CompletionInFlight(slot) == IF slot.in_flight = 0 THEN USIZE_MAX ELSE slot.in_flight - 1

\* The statement under the mutex.  A panic ends the thread with the guard
\* alive: the mutex stays poisoned, which try_lock reports as an error and on
\* which no lock().unwrap() gets past.
CompletionBody(w) ==
    /\ wpc[w] = "completing"
    /\ \E outcome \in CompletionOutcomes(segments[wid[w]]) :
          IF outcome = "panic"
          THEN /\ slotLock' = [slotLock EXCEPT ![wid[w]] = "poisoned"]
               /\ wpc' = [wpc EXCEPT ![w] = "panicked"]
               /\ UNCHANGED <<segments, wbuf, wid>>
          ELSE /\ SetSlot(wid[w], [segments[wid[w]] EXCEPT
                                     !.in_flight = CompletionInFlight(segments[wid[w]])])
               /\ Release(wid[w])
               /\ wpc' = [wpc EXCEPT ![w] = "idle"]
               /\ wbuf' = [wbuf EXCEPT ![w] = 0]
               /\ wid' = [wid EXCEPT ![w] = NoId]
    /\ UNCHANGED <<extVars, cfgVars, policyVars, page_cache_2mb, page_cache_4kb,
                   page_cache_1gb, initResult, lastReply, owed, reconVars, sincePass, lastCommitted>>

\* ----------------------------------------------------- update_pinned_list

\* The handles a thread can call update_pinned_list on.
Handles == IF cloned THEN {"original", "clone"} ELSE {"original"}

\* The keys of self.segments for the handle the pass runs on (the values, Arcs
\* of the slots, are shared by the handles).
ReconcilerIds == IF rHandle = "clone" THEN clone_segments ELSE DOMAIN segments

\* The pass begins: new_pinned_list and current_pinned_list are read from the
\* policy (only this thread and initialize_slab write the latter).
PassStart ==
    /\ newResult = "Ok"
    /\ rpc = "idle"
    /\ rNew' = return_top_segments_to_pin
    /\ rCur' = current_pinned_list
    /\ rUnpin' = current_pinned_list \ return_top_segments_to_pin
    /\ rPin' = return_top_segments_to_pin \ current_pinned_list
    /\ rpc' = "unpin"
    /\ rHandle' \in Handles
    /\ passOps' = 0
    /\ passPrev' = sincePass
    /\ sincePass' = "quiet"
    /\ UNCHANGED <<extVars, cfgVars, policyVars, registryVars, workerVars, rItem, lastCommitted>>

\* for item in current_pinned_list.difference(&new_pinned_list): the next
\* item, in any order; an id without a slot is logged and skipped.
UnpinNext ==
    /\ rpc = "unpin"
    /\ IF rUnpin = {}
       THEN /\ rpc' = "pin"
            /\ UNCHANGED <<rUnpin, rItem>>
       ELSE \E item \in rUnpin :
               /\ rUnpin' = rUnpin \ {item}
               /\ IF item \in ReconcilerIds
                  THEN rItem' = item /\ rpc' = "unpinLock"
                  ELSE UNCHANGED <<rItem, rpc>>
    /\ UNCHANGED <<extVars, cfgVars, policyVars, registryVars, workerVars, rHandle, rNew, rCur, rPin,
                   passOps, passPrev, sincePass, lastCommitted>>

\* unpin_segment: extracted_segment.lock() at the top of the loop.
UnpinLock ==
    /\ rpc = "unpinLock"
    /\ slotLock[rItem] = Free
    /\ Acquire(rItem, Reconciler)
    /\ rpc' = "unpinBody"
    /\ UNCHANGED <<extVars, cfgVars, policyVars, segments, page_cache_2mb, page_cache_4kb,
                   page_cache_1gb, initResult, workerVars, rHandle, rNew, rCur, rUnpin, rPin,
                   rItem, passOps, passPrev, sincePass, lastCommitted>>

\* The drain test of unpin_segment without its look at in_flight.
DrainedUnchecked(slot) == TRUE

\* if locked_segment.1 == 0
Drained(slot) == slot.in_flight = 0

\* An unpin_segment that returns with the slot as it found it.
UnpinSlotLost(slot) == slot

\* The loop of unpin_segment without its locked_segment.2 = false.
UnpinSlotStaysQuiescing(slot) ==
    IF Drained(slot)
    THEN [slot EXCEPT !.pinned = FALSE, !.quiescing = TRUE]
    ELSE [slot EXCEPT !.quiescing = TRUE]

\* One iteration of the loop of unpin_segment under the mutex: quiescing is
\* set, and with no I/O in flight the segment is unregistered and quiescing
\* cleared; the mutex is released at the end of the iteration either way.
UnpinSlot(slot) ==
    IF Drained(slot)
    THEN [slot EXCEPT !.pinned = FALSE, !.quiescing = FALSE]
    ELSE [slot EXCEPT !.quiescing = TRUE]

UnpinBody ==
    /\ rpc = "unpinBody"
    /\ SetSlot(rItem, UnpinSlot(segments[rItem]))
    /\ Release(rItem)
    /\ IF Drained(segments[rItem])
       THEN rpc' = "unpin" /\ rItem' = NoId /\ passOps' = passOps + 1
       ELSE rpc' = "unpinLock" /\ UNCHANGED <<rItem, passOps>>
    /\ UNCHANGED <<extVars, cfgVars, policyVars, page_cache_2mb, page_cache_4kb,
                   page_cache_1gb, initResult, workerVars, rHandle, rNew, rCur, rUnpin, rPin,
                   passPrev, sincePass, lastCommitted>>

\* for item in new_pinned_list.difference(&current_pinned_list): the next
\* item, in any order; pin_segment bails on an id without a slot and the pass
\* returns the error.
PinNext ==
    /\ rpc = "pin"
    /\ IF rPin = {}
       THEN /\ rpc' = "commit"
            /\ UNCHANGED <<rPin, rItem>>
       ELSE \E item \in rPin :
               /\ rPin' = rPin \ {item}
               /\ IF item \in ReconcilerIds
                  THEN rItem' = item /\ rpc' = "pinLock"
                  ELSE rItem' = NoId /\ rpc' = "failed"
    /\ UNCHANGED <<extVars, cfgVars, policyVars, registryVars, workerVars, rHandle, rNew, rCur, rUnpin,
                   passOps, passPrev, sincePass, lastCommitted>>

\* pin_segment: extracted_segment.lock()
PinLock ==
    /\ rpc = "pinLock"
    /\ slotLock[rItem] = Free
    /\ Acquire(rItem, Reconciler)
    /\ rpc' = "pinBody"
    /\ UNCHANGED <<extVars, cfgVars, policyVars, segments, page_cache_2mb, page_cache_4kb,
                   page_cache_1gb, initResult, workerVars, rHandle, rNew, rCur, rUnpin, rPin,
                   rItem, passOps, passPrev, sincePass, lastCommitted>>

\* A pin that leaves the slot as it was.
PinSlotLost(slot) == slot

\* locked_segment.0.register(priv_info): Slab::pin_segment
PinSlot(slot) == [slot EXCEPT !.pinned = TRUE]

PinBody ==
    /\ rpc = "pinBody"
    /\ SetSlot(rItem, PinSlot(segments[rItem]))
    /\ Release(rItem)
    /\ rpc' = "pin"
    /\ rItem' = NoId
    /\ passOps' = passOps + 1
    /\ UNCHANGED <<extVars, cfgVars, policyVars, page_cache_2mb, page_cache_4kb,
                   page_cache_1gb, initResult, workerVars, rHandle, rNew, rCur, rUnpin, rPin,
                   passPrev, sincePass, lastCommitted>>

\* A commit of the list the pass read in place of the list it computed.
CommittedListStale == rCur

\* set_current_pinned_list(new_pinned_list); Ok(())
CommittedList == rNew

PassCommit ==
    /\ rpc = "commit"
    /\ current_pinned_list' = CommittedList
    /\ rpc' = "idle"
    /\ rNew' = {}
    /\ rCur' = {}
    /\ passOps' = 0
    /\ passPrev' = "dirty"
    /\ lastCommitted' = CommittedList
    /\ UNCHANGED <<extVars, cfgVars, access_counts, hashOrder, timestamps, registryVars, workerVars,
                   rHandle, rUnpin, rPin, rItem, sincePass>>

\* ------------------------------------------------------------------ clone

\* impl Clone for ZeroCopyCache: the segments map and the three page maps are
\* copied as they are now, the slots (Arc) and the cache_builder are shared.
CloneHandle ==
    /\ newResult = "Ok"
    /\ ~cloned
    /\ AllIdle
    /\ cloned' = TRUE
    /\ clone_segments' = DOMAIN segments
    /\ clone_page_cache_2mb' = page_cache_2mb
    /\ clone_page_cache_4kb' = page_cache_4kb
    /\ clone_page_cache_1gb' = page_cache_1gb
    /\ UNCHANGED <<twinVars, metricVars, lruVars, lockVars, cfgVars, policyVars, registryVars, workerVars, reconVars, histVars>>

\* ---------------------------------------------------------- construction

\* ZeroCopyCache::new(pinning_limit, segment_size, pin_on_demand, ..)
New ==
    /\ newResult = "none"
    /\ newResult' = NewOutcome(newArgs[1], newArgs[2])
    /\ IF NewOutcome(newArgs[1], newArgs[2]) = "Ok"
       THEN /\ pinning_limit' = newArgs[1]
            /\ segment_size' = newArgs[2]
            /\ limit' = PolicyLimit(newArgs[1], newArgs[2])
       ELSE UNCHANGED <<pinning_limit, segment_size, limit>>
    /\ UNCHANGED <<extVars, newArgs, pin_on_demand, policy, policyVars, registryVars,
                   workerVars, reconVars, histVars>>

\* Everything but the configuration, as new leaves it.
Empty ==
    /\ access_counts = [id \in {} |-> 0]
    /\ hashOrder = <<>>
    /\ timestamps = <<>>
    /\ current_pinned_list = {}
    /\ segments = [id \in {} |-> 0]
    /\ slotLock = [id \in {} |-> Free]
    /\ page_cache_2mb = [k \in {} |-> NoId]
    /\ page_cache_4kb = [k \in {} |-> NoId]
    /\ page_cache_1gb = [k \in {} |-> NoId]
    /\ initResult = [s \in {slab.id : slab \in AllSlabs} |-> "none"]
    /\ wpc = [w \in Workers |-> "idle"]
    /\ wbuf = [w \in Workers |-> 0]
    /\ wid = [w \in Workers |-> NoId]
    /\ lastReply = "none"
    /\ owed = [b \in Bufs |-> 0]
    /\ rpc = "idle"
    /\ rNew = {}
    /\ rCur = {}
    /\ rUnpin = {}
    /\ rPin = {}
    /\ rItem = NoId
    /\ passOps = 0
    /\ sincePass = "dirty"
    /\ passPrev = "dirty"
    /\ lastCommitted = {}
    /\ twin_access_counts = [id \in {} |-> 0]
    /\ twin_hashOrder = <<>>
    /\ afterReset = FALSE
    /\ cloned = FALSE
    /\ clone_segments = {}
    /\ clone_page_cache_2mb = [k \in {} |-> NoId]
    /\ clone_page_cache_4kb = [k \in {} |-> NoId]
    /\ clone_page_cache_1gb = [k \in {} |-> NoId]
    /\ rHandle = "original"
    /\ hit_count = 0
    /\ miss_count = 0
    /\ total_count = 0
    /\ lru_cache = <<>>
    /\ lru_ret = <<>>
    /\ lru_puts = <<>>
    /\ lru_gets = 0
    /\ lk_owner = [m \in {"cache_builder", "segment", "new_segment"} |-> Free]
    /\ lk_script = [t \in LockThreads |-> <<>>]
    /\ lk_pc = [t \in LockThreads |-> 1]
    /\ lk_seg = [pinned |-> FALSE, in_flight |-> 0, quiescing |-> FALSE]

\* The cache as new(pl, ss, pod, ..) returns it for policy type cb.
ConstructedAs(pl, ss, pod, cb) ==
    /\ NewOutcome(pl, ss) = "Ok"
    /\ newArgs = <<pl, ss>>
    /\ newResult = "Ok"
    /\ pinning_limit = pl
    /\ segment_size = ss
    /\ limit = PolicyLimit(pl, ss)
    /\ pin_on_demand = pod
    /\ policy = cb
    /\ lru_len = DEFAULT_CACHE_SIZE
    /\ Empty

\* The cache as new(pl, ss, false, ..) returns it for policy type cb.
Constructed(pl, ss, cb) == ConstructedAs(pl, ss, FALSE, cb)

\* ------------------------------------------------------- zerocopylru.rs

\* lru::LruCache::put(key, value) on an unbounded cache: a present key keeps one
\* entry, with the new value, and the entry becomes the most recently used.
LruCachePut(cache, key, value) ==
    Append(SelectSeq(cache, LAMBDA e : e.key # key), [key |-> key, value |-> value])

\* UnboundedLRUCache::get_cache_size
get_cache_size == Len(lru_cache)

\* UnboundedLRUCache::put(key, value): below capacity the entry is stored and
\* handed back; else pop_lru() takes the least recently used entry (None from
\* an empty cache), the entry is stored and what pop_lru() gave is returned.
put(key, value) ==
    /\ Len(lru_puts) < MaxPuts
    /\ IF lru_len > get_cache_size
       THEN /\ lru_cache' = LruCachePut(lru_cache, key, value)
            /\ lru_ret' = <<"Some", key, value>>
       ELSE IF lru_cache = <<>>
            THEN /\ lru_cache' = LruCachePut(<<>>, key, value)
                 /\ lru_ret' = <<"None">>
            ELSE /\ lru_cache' = LruCachePut(Tail(lru_cache), key, value)
                 /\ lru_ret' = <<"Some", Head(lru_cache).key, Head(lru_cache).value>>
    /\ lru_puts' = Append(lru_puts, <<key, value>>)
    /\ UNCHANGED <<lru_len, lru_gets>>
    /\ UNCHANGED <<cfgVars, policyVars, registryVars, workerVars, reconVars, histVars,
                   twinVars, cloneVars, metricVars, lockVars>>

\* What get(key) returns for a cache: the value of the key's entry, copied.
GetResult(cache, key) ==
    IF \E i \in 1 .. Len(cache) : cache[i].key = key
    THEN <<"Some", (CHOOSE e \in {cache[i] : i \in 1 .. Len(cache)} : e.key = key).value>>
    ELSE <<"None">>

\* UnboundedLRUCache::get(key): LruCache::get moves a present key's entry to
\* the most recently used position.
get(key) ==
    /\ lru_gets < MaxPuts
    /\ lru_ret' = GetResult(lru_cache, key)
    /\ lru_cache' = SelectSeq(lru_cache, LAMBDA e : e.key # key)
                    \o SelectSeq(lru_cache, LAMBDA e : e.key = key)
    /\ lru_gets' = lru_gets + 1
    /\ UNCHANGED <<lru_len, lru_puts>>
    /\ UNCHANGED <<cfgVars, policyVars, registryVars, workerVars, reconVars, histVars,
                   twinVars, cloneVars, metricVars, lockVars>>

\* ------------------------------------------------- the order of locking

\* The calls as the sequence of their mutex operations and of their Slab::pin_segment
\* and Slab::unpin_segment calls.  The mutexes are the cache_builder (policy)
\* mutex, the mutex of a slot the threads share ("segment") and the mutex of a
\* slot initialize_slab has created and not yet inserted ("new_segment").

\* record_access_and_get_io_info_if_pinned, periodic mode: update_access under
\* the policy mutex, released at the end of the statement; then try_lock on the
\* slot, the in_flight count, and the release on return.
FastPathScript ==
    <<<<"lock", "cache_builder">>, <<"unlock", "cache_builder">>,
      <<"try_lock", "segment">>, <<"io", "segment">>, <<"unlock", "segment">>>>

\* record_io_completion: segment_arc.lock().unwrap().1 -= 1
CompletionScript ==
    <<<<"lock", "segment">>, <<"dec", "segment">>, <<"unlock", "segment">>>>

\* update_pinned_list holding the policy mutex from its second lock() to the
\* end of the pass.
UpdatePinnedListScriptHoldingPolicy(kind) ==
    <<<<"lock", "cache_builder">>, <<"unlock", "cache_builder">>,
      <<"lock", "cache_builder">>>>
    \o (CASE kind = "unpin" -> <<<<"lock", "segment">>, <<"unregister_or_retry", "segment">>>>
          [] kind = "pin" -> <<<<"lock", "segment">>, <<"register", "segment">>,
                               <<"unlock", "segment">>>>
          [] OTHER -> <<>>)
    \o <<<<"unlock", "cache_builder">>>>

\* update_pinned_list: the policy mutex is taken and released for
\* return_top_segments_to_pin and again for current_pinned_segments; then the
\* loop of unpin_segment for a departure or pin_segment for an arrival; then
\* the policy mutex for set_current_pinned_list.
UpdatePinnedListScript(kind) ==
    <<<<"lock", "cache_builder">>, <<"unlock", "cache_builder">>,
      <<"lock", "cache_builder">>, <<"unlock", "cache_builder">>>>
    \o (CASE kind = "unpin" -> <<<<"lock", "segment">>, <<"unregister_or_retry", "segment">>>>
          [] kind = "pin" -> <<<<"lock", "segment">>, <<"register", "segment">>,
                               <<"unlock", "segment">>>>
          [] OTHER -> <<>>)
    \o <<<<"lock", "cache_builder">>, <<"unlock", "cache_builder">>>>

\* initialize_slab for one segment: the policy mutex for current_pinned_segments;
\* the new slot's mutex; with register_at_start, current_bytes_pinned() under
\* the policy mutex and then register on the new segment; the release of the
\* new slot's mutex; the policy mutex for set_current_pinned_list.
InitializeSlabScript(register_at_start) ==
    <<<<"lock", "cache_builder">>, <<"unlock", "cache_builder">>,
      <<"lock", "new_segment">>>>
    \o (IF register_at_start
        THEN <<<<"lock", "cache_builder">>, <<"unlock", "cache_builder">>,
               <<"register", "new_segment">>>>
        ELSE <<>>)
    \o <<<<"unlock", "new_segment">>,
         <<"lock", "cache_builder">>, <<"unlock", "cache_builder">>>>

\* record_and_pin_on_demand: update_access and insert_and_evict under the
\* policy mutex; insert_and_evict panics in every policy.
OnDemandScript ==
    <<<<"lock", "cache_builder">>, <<"panic", "cache_builder">>>>

\* The step thread t takes next, <<"idle", "">> between calls.
LkInstr(t) ==
    IF lk_script[t] = <<>> THEN <<"idle", "">> ELSE lk_script[t][lk_pc[t]]

\* Thread t goes on to its next step, or returns from the call after the last.
LkAdvance(t) ==
    IF lk_pc[t] = Len(lk_script[t])
    THEN /\ lk_script' = [lk_script EXCEPT ![t] = <<>>]
         /\ lk_pc' = [lk_pc EXCEPT ![t] = 1]
    ELSE /\ lk_pc' = [lk_pc EXCEPT ![t] = @ + 1]
         /\ UNCHANGED lk_script

\* Thread t panics: the mutexes it holds are poisoned and the thread ends.
LkDies(t) ==
    /\ lk_owner' = [m \in DOMAIN lk_owner |->
                       IF lk_owner[m] = t THEN "poisoned" ELSE lk_owner[m]]
    /\ lk_script' = [lk_script EXCEPT ![t] = <<<<"dead", "">>>>]
    /\ lk_pc' = [lk_pc EXCEPT ![t] = 1]

LkFrame ==
    UNCHANGED <<cfgVars, policyVars, registryVars, workerVars, reconVars, histVars,
                twinVars, cloneVars, metricVars, lruVars>>

\* A thread begins a call: a worker the fast path of the cache's mode, the
\* completer record_io_completion for an I/O in flight, the reconciler a pass
\* (pin_and_unpin_thread bails in pin-on-demand mode), the initializer
\* initialize_slab.
LkCall(t) ==
    /\ lk_script[t] = <<>>
    /\ lk_script' \in
          {[lk_script EXCEPT ![t] = script] : script \in
              CASE t \in Workers ->
                     IF pin_on_demand THEN {OnDemandScript}
                     ELSE IF lk_seg.in_flight
                               + Cardinality({w \in Workers : lk_script[w] # <<>>}) < MaxOwed
                          THEN {FastPathScript} ELSE {}
                [] t = "completer" ->
                     IF lk_seg.in_flight > 0 THEN {CompletionScript} ELSE {}
                [] t = Reconciler ->
                     IF pin_on_demand THEN {}
                     ELSE {UpdatePinnedListScript(kind) : kind \in {"none", "unpin", "pin"}}
                [] OTHER -> {InitializeSlabScript(ras) : ras \in BOOLEAN}}
    /\ UNCHANGED <<lk_owner, lk_pc, lk_seg>>
    /\ LkFrame

\* mutex.lock().unwrap() / .expect(..): waits while another thread holds the
\* mutex, panics on a poisoned one.
LkLock(t) ==
    /\ LkInstr(t)[1] = "lock"
    /\ LET m == LkInstr(t)[2] IN
       IF lk_owner[m] = "poisoned"
       THEN LkDies(t)
       ELSE /\ lk_owner[m] = Free
            /\ lk_owner' = [lk_owner EXCEPT ![m] = t]
            /\ LkAdvance(t)
    /\ UNCHANGED lk_seg
    /\ LkFrame

\* segment_arc.try_lock(): the call returns None when the mutex is not free.
LkTryLock(t) ==
    /\ LkInstr(t)[1] = "try_lock"
    /\ LET m == LkInstr(t)[2] IN
       IF lk_owner[m] = Free
       THEN /\ lk_owner' = [lk_owner EXCEPT ![m] = t]
            /\ LkAdvance(t)
       ELSE /\ lk_script' = [lk_script EXCEPT ![t] = <<>>]
            /\ lk_pc' = [lk_pc EXCEPT ![t] = 1]
            /\ UNCHANGED lk_owner
    /\ UNCHANGED lk_seg
    /\ LkFrame

\* The guard of a mutex is dropped.
LkUnlock(t) ==
    /\ LkInstr(t)[1] = "unlock"
    /\ lk_owner' = [lk_owner EXCEPT ![LkInstr(t)[2]] = Free]
    /\ LkAdvance(t)
    /\ UNCHANGED lk_seg
    /\ LkFrame

\* What a thread does to a slot under its mutex: mutex.1 += 1 on a pinned
\* slot, .1 -= 1, or register (Slab::pin_segment).
LkSlotOp(t) ==
    /\ LkInstr(t)[1] \in {"io", "dec", "register"}
    /\ lk_seg' =
          CASE LkInstr(t) = <<"io", "segment">> ->
                 IF lk_seg.pinned THEN [lk_seg EXCEPT !.in_flight = @ + 1] ELSE lk_seg
            [] LkInstr(t) = <<"dec", "segment">> -> [lk_seg EXCEPT !.in_flight = @ - 1]
            [] LkInstr(t) = <<"register", "segment">> -> [lk_seg EXCEPT !.pinned = TRUE]
            [] OTHER -> lk_seg
    /\ LkAdvance(t)
    /\ UNCHANGED lk_owner
    /\ LkFrame

\* One iteration of unpin_segment's loop that keeps the slot's mutex when it
\* goes round again.
LkDrainCheckKeepingLock(t) ==
    /\ LkInstr(t)[1] = "unregister_or_retry"
    /\ IF lk_seg.in_flight = 0
       THEN /\ lk_seg' = [lk_seg EXCEPT !.pinned = FALSE, !.quiescing = FALSE]
            /\ lk_owner' = [lk_owner EXCEPT ![LkInstr(t)[2]] = Free]
            /\ LkAdvance(t)
       ELSE /\ lk_seg' = [lk_seg EXCEPT !.quiescing = TRUE]
            /\ lk_pc' = [lk_pc EXCEPT ![t] = @ - 1]
            /\ UNCHANGED <<lk_owner, lk_script>>
    /\ LkFrame

\* One iteration of unpin_segment's loop under the slot's mutex: quiescing is
\* set; with no I/O in flight unregister (Slab::unpin_segment), quiescing is
\* cleared and the loop ends; else the loop goes back to lock().  The guard is
\* dropped at the end of the iteration either way.
LkDrainCheck(t) ==
    /\ LkInstr(t)[1] = "unregister_or_retry"
    /\ lk_owner' = [lk_owner EXCEPT ![LkInstr(t)[2]] = Free]
    /\ IF lk_seg.in_flight = 0
       THEN /\ lk_seg' = [lk_seg EXCEPT !.pinned = FALSE, !.quiescing = FALSE]
            /\ LkAdvance(t)
       ELSE /\ lk_seg' = [lk_seg EXCEPT !.quiescing = TRUE]
            /\ lk_pc' = [lk_pc EXCEPT ![t] = @ - 1]
            /\ UNCHANGED lk_script
    /\ LkFrame

\* unimplemented!() / unreachable!()
LkPanic(t) ==
    /\ LkInstr(t)[1] = "panic"
    /\ LkDies(t)
    /\ UNCHANGED lk_seg
    /\ LkFrame

\* ------------------------------------------------------ the specifications

\* Periodic mode: a cache of 4 KiB segments with room for one or two of them,
\* worker threads on the fast path and one reconciler.
Init ==
    \E pl \in {4096, 8192}, cb \in {"Mfu", "NoAlg"} : Constructed(pl, 4096, cb)

Register == \E slab \in MainSlabs, ras \in BOOLEAN : initialize_slab(slab, ras)
FastPath == \E w \in Workers, buf \in Bufs : FastPathCall(w, buf)
FastPathStep == \E w \in Workers : FastPathTryLock(w) \/ FastPathBody(w)
Complete == \E w \in Workers, buf \in Bufs : CompletionCall(w, buf)
CompleteStep == \E w \in Workers : CompletionLock(w) \/ CompletionBody(w)
Reconcile ==
    \/ PassStart
    \/ UnpinNext
    \/ UnpinLock
    \/ UnpinBody
    \/ PinNext
    \/ PinLock
    \/ PinBody
    \/ PassCommit

Next ==
    \/ Register
    \/ FastPath
    \/ FastPathStep
    \/ Complete
    \/ CompleteStep
    \/ Reconcile

Spec == Init /\ [][Next]_vars

\* Periodic mode under fair scheduling: the reconciler thread keeps running,
\* a call in progress keeps taking steps and gets a mutex that is free again
\* and again, and the caller completes every I/O it was given Some for.  New
\* fast-path calls may or may not arrive.
InitDrain == Constructed(4096, 4096, "Mfu")

Fairness ==
    /\ SF_vars(Reconcile)
    /\ SF_vars(FastPathStep)
    /\ SF_vars(Complete)
    /\ SF_vars(CompleteStep)

FairSpec == InitDrain /\ [][Next]_vars /\ Fairness

\* Construction and registration alone: new on any pair of arguments, then
\* initialize_slab on slabs of every page size.
InitSeq ==
    /\ newArgs \in LimitArgs \X SizeArgs
    /\ newResult = "none"
    /\ pinning_limit = 0
    /\ segment_size = 0
    /\ limit = 0
    /\ pin_on_demand = FALSE
    /\ policy \in {"Mfu", "NoAlg"}
    /\ lru_len = DEFAULT_CACHE_SIZE
    /\ Empty

RegisterAny == \E slab \in RegSlabs, ras \in BOOLEAN : initialize_slab(slab, ras)

NextSeq ==
    \/ New
    \/ RegisterAny

SpecSeq == InitSeq /\ [][NextSeq]_vars

\* The policy alone: an MFU policy of limit 1, 2 or 3 driven by update_access
\* on four segment ids and by reset.
PolicyIds == {<<7, 0>>, <<7, 1>>, <<7, 2>>, <<7, 3>>}

InitPolicy == \E k \in 1 .. 3 : Constructed(k * PGSIZE_4KB, PGSIZE_4KB, "Mfu")

PolicyAccess ==
    \E id \in PolicyIds :
        /\ MfuCountAfter(access_counts, id) <= MaxCount
        /\ update_access(id)
        /\ UNCHANGED <<extVars, cfgVars, current_pinned_list, registryVars, workerVars,
                       reconVars, histVars>>

PolicyReset ==
    /\ reset
    /\ UNCHANGED <<extVars, cfgVars, timestamps, current_pinned_list, registryVars, workerVars,
                   reconVars, histVars>>

NextPolicy ==
    \/ PolicyAccess
    \/ PolicyReset

SpecPolicy == InitPolicy /\ [][NextPolicy]_vars

\* Two MFU policies of one limit: accesses to either before reset() is called
\* on both, then the same accesses to both.
TwinIds == {<<7, 0>>, <<7, 1>>, <<7, 2>>}

InitTwin == \E k \in 1 .. 2 : Constructed(k * PGSIZE_4KB, PGSIZE_4KB, "Mfu")

\* MfuCache::update_access(id) on the second policy.
TwinUpdateAccess(id) ==
    /\ twin_access_counts' = [k \in DOMAIN twin_access_counts \cup {id} |->
                                 IF k = id THEN MfuCountAfter(twin_access_counts, id)
                                 ELSE twin_access_counts[k]]
    /\ IF id \in DOMAIN twin_access_counts
       THEN twin_hashOrder' = twin_hashOrder
       ELSE twin_hashOrder' \in Perms(DOMAIN twin_access_counts \cup {id})

\* MfuCache::reset on the second policy.
TwinReset ==
    /\ twin_access_counts' = [k \in DOMAIN twin_access_counts |-> 0]
    /\ UNCHANGED twin_hashOrder

TwinFrame ==
    UNCHANGED <<cloneVars, metricVars, lruVars, lockVars, cfgVars, timestamps, current_pinned_list, registryVars, workerVars,
                reconVars, histVars>>

HistoryAccess ==
    \E id \in TwinIds :
        /\ ~afterReset
        /\ MfuCountAfter(access_counts, id) <= MaxCount
        /\ update_access(id)
        /\ UNCHANGED twinVars
        /\ TwinFrame

TwinHistoryAccess ==
    \E id \in TwinIds :
        /\ ~afterReset
        /\ MfuCountAfter(twin_access_counts, id) <= MaxCount
        /\ TwinUpdateAccess(id)
        /\ UNCHANGED <<access_counts, hashOrder, afterReset>>
        /\ TwinFrame

ResetBoth ==
    /\ ~afterReset
    /\ reset
    /\ TwinReset
    /\ afterReset' = TRUE
    /\ TwinFrame

SameAccess ==
    \E id \in TwinIds :
        /\ afterReset
        /\ MfuCountAfter(access_counts, id) <= MaxCount
        /\ MfuCountAfter(twin_access_counts, id) <= MaxCount
        /\ update_access(id)
        /\ TwinUpdateAccess(id)
        /\ UNCHANGED afterReset
        /\ TwinFrame

NextTwin ==
    \/ HistoryAccess
    \/ TwinHistoryAccess
    \/ ResetBoth
    \/ SameAccess

SpecTwin == InitTwin /\ [][NextTwin]_vars

\* Lookups in both modes: a cache of 4 KiB or 2 MiB segments with room for two
\* of them, slabs of both page sizes, and fast-path calls of two threads on
\* managed and unmanaged buffers.
LookupSlabs == {SlabA, SlabB, SlabD}

InitLookup ==
    \E ss \in {PGSIZE_4KB, PGSIZE_2MB}, pod \in BOOLEAN, cb \in {"Mfu", "NoAlg", "OnDemandLru"} :
        ConstructedAs(2 * ss, ss, pod, cb)

RegisterLookup == \E slab \in LookupSlabs, ras \in BOOLEAN : initialize_slab(slab, ras)
Demand == \E w \in Workers, buf \in Bufs : DemandCall(w, buf)

NextLookup ==
    \/ RegisterLookup
    \/ FastPath
    \/ FastPathStep
    \/ Demand

SpecLookup == InitLookup /\ [][NextLookup]_vars

\* Pin-on-demand mode: a cache with room for one or two 4 KiB segments, a slab
\* of two segments and two threads on the fast path.
InitDemand ==
    \E k \in 1 .. 2, cb \in {"OnDemandLru", "Mfu", "NoAlg"} :
        ConstructedAs(k * PGSIZE_4KB, PGSIZE_4KB, TRUE, cb)

NextDemand ==
    \/ Register
    \/ Demand

SpecDemand == InitDemand /\ [][NextDemand]_vars

\* Two handles: the handle new returned registers the slab and serves the fast
\* path of one thread, clone() is called before or after the registration, and
\* the reconciler runs its passes on either handle.
InitClone == Constructed(2 * PGSIZE_4KB, PGSIZE_4KB, "Mfu")

FastPathOne == \E buf \in Bufs : FastPathCall("w1", buf)

NextClone ==
    \/ Register
    \/ CloneHandle
    \/ FastPathOne
    \/ FastPathStep
    \/ Complete
    \/ CompleteStep
    \/ Reconcile

SpecClone == InitClone /\ [][NextClone]_vars

\* Periodic mode with callers that complete I/O whether or not the fast path
\* answered Some: no reconciler, segments pinned at start or not.
InitStray == \E cb \in {"Mfu", "NoAlg"} : Constructed(2 * PGSIZE_4KB, PGSIZE_4KB, cb)

StrayComplete == \E w \in Workers, buf \in Bufs : StrayCompletionCall(w, buf)

NextStray ==
    \/ Register
    \/ FastPath
    \/ FastPathStep
    \/ StrayComplete
    \/ CompleteStep

SpecStray == InitStray /\ [][NextStray]_vars

\* The LRU cache alone: UnboundedLRUCache::new on any capacity up to MaxLruLen,
\* then put and get calls on keys 1 .. MaxKey with either of two values.
InitLru ==
    /\ lru_len \in 0 .. MaxLruLen
    /\ newArgs = <<0, 0>>
    /\ newResult = "none"
    /\ pinning_limit = 0
    /\ segment_size = 0
    /\ limit = 0
    /\ pin_on_demand = FALSE
    /\ policy = "NoAlg"
    /\ Empty

NextLru ==
    \/ \E key \in 1 .. MaxKey, value \in {10, 20} : put(key, value)
    \/ \E key \in 1 .. MaxKey : get(key)

SpecLru == InitLru /\ [][NextLru]_vars

\* The order of locking in both modes: the threads call the fast path,
\* record_io_completion, update_pinned_list and initialize_slab at the same
\* time on one shared slot and one policy.
InitLocks ==
    \E pod \in BOOLEAN, cb \in {"Mfu", "NoAlg"} :
        ConstructedAs(2 * PGSIZE_4KB, PGSIZE_4KB, pod, cb)

NextLocks ==
    \E t \in LockThreads :
        \/ LkCall(t)
        \/ LkLock(t)
        \/ LkTryLock(t)
        \/ LkUnlock(t)
        \/ LkSlotOp(t)
        \/ LkDrainCheck(t)
        \/ LkPanic(t)

SpecLocks == InitLocks /\ [][NextLocks]_vars

\* ----------------------------------------------------------------- claims

\* Some replies for buffers of segment id that no completion has yet
\* decremented in_flight for: those not yet followed by a record_io_completion
\* call, and the calls in progress.
Outstanding(id) ==
    Cardinality({<<b, k>> \in Bufs \X (1 .. MaxOwed + 1) :
                    get_segment_id(b) = id /\ k <= owed[b]})
    + Cardinality({w \in Workers : wpc[w] \in {"complete", "completing"} /\ wid[w] = id})

\* C1: in every reachable state current_bytes_pinned() is at most
\* pinning_limit.
C1_PinnedWithinLimit == current_bytes_pinned <= pinning_limit

\* C2: no slot goes from pinned to unpinned while its in_flight counter is
\* greater than 0.
C2_UnpinOnlyWhenDrained ==
    [][\A id \in DOMAIN segments :
          (segments[id].pinned /\ ~segments'[id].pinned) => segments[id].in_flight = 0]_vars

\* A drain in progress: the reconciler has set quiescing on a pinned segment
\* with I/O in flight and waits for the slot's mutex again.
C2_Witness ==
    /\ rpc = "unpinLock"
    /\ segments[rItem].pinned
    /\ segments[rItem].quiescing
    /\ segments[rItem].in_flight > 0

\* C3: for every slot in_flight is non-negative and equals the number of
\* fast-path calls on that segment that returned Some and are not yet matched
\* by a record_io_completion (a call that returns None leaves it unchanged).
C3_InFlightMatchesReplies ==
    \A id \in DOMAIN segments :
        /\ segments[id].in_flight >= 0
        /\ segments[id].in_flight = Outstanding(id)

\* C4: in periodic mode a fast-path call that took the slot's mutex returns
\* Some exactly when the segment is pinned and not quiescing under the mutex,
\* None otherwise; a call that finds the mutex free takes it, and a call that
\* returns without the mutex returns None.
C4_SomeIffPinnedAndNotQuiescing ==
    [][\A w \in Workers :
          /\ (wpc[w] = "locked" /\ wpc'[w] = "idle") =>
                /\ lastReply' \in {"Some", "None"}
                /\ lastReply' = "Some" <=>
                      (segments[wid[w]].pinned /\ ~segments[wid[w]].quiescing)
          /\ (wpc[w] = "trylock" /\ wpc'[w] = "idle") => lastReply' = "None"
          /\ (/\ wpc[w] = "trylock"
              /\ wpc'[w] # "trylock"
              /\ wid[w] \in DOMAIN segments
              /\ slotLock[wid[w]] = Free) => wpc'[w] = "locked"]_vars

\* A call was refused on a quiescing, still pinned segment.
C4_Witness ==
    /\ lastReply = "None"
    /\ \E id \in DOMAIN segments :
          /\ segments[id].pinned
          /\ segments[id].quiescing
          /\ segments[id].in_flight > Outstanding(id)

C7_SecondPassNoOpAsStated ==
    [][(rpc = "commit" /\ rpc' = "idle" /\ passPrev \in {"quiet", "init"}) =>
          /\ passOps = 0
          /\ current_pinned_list' = current_pinned_list]_vars

\* C7 as amended: a pass that begins with no update_access and no
\* initialize_slab that pinned segments since the pass before it began invokes
\* no pin and no unpin and leaves the policy's current pinned list as it found
\* it, equal to the list the pass before it committed.
C7_SecondPassNoOp ==
    [][(rpc = "commit" /\ rpc' = "idle" /\ passPrev = "quiet") =>
          /\ passOps = 0
          /\ current_pinned_list' = current_pinned_list
          /\ current_pinned_list' = lastCommitted]_vars

\* A second pass of the MFU policy with nothing between it and the first is
\* about to commit a list that holds a segment.
C7_Witness ==
    /\ policy = "Mfu"
    /\ rpc = "commit"
    /\ passPrev = "quiet"
    /\ rNew # {}

\* C8: new returns Ok exactly when segment_size <= pinning_limit and either
\* both are 0 or pinning_limit is a multiple of segment_size, and returns an
\* InvalidConfig error otherwise: it never aborts.
C8_NewOkIffValid ==
    newResult # "none" =>
        LET pl == newArgs[1]
            ss == newArgs[2]
            valid == /\ ss <= pl
                     /\ \/ pl = 0 /\ ss = 0
                        \/ ss # 0 /\ pl % ss = 0
        IN /\ newResult = "Ok" <=> valid
           /\ newResult # "Ok" => newResult = "InvalidConfig"

\* C9: initialize_slab returns an InvalidSlab error when the slab's bytes are
\* fewer than segment_size or not a multiple of it, and then leaves the
\* registry, the page maps, every slot and the pinned list unchanged.
C9_InvalidSlabRejected ==
    [][\A slab \in RegSlabs :
          (/\ initResult[slab.id] = "none"
           /\ initResult'[slab.id] # "none"
           /\ \/ MempoolSize(slab) < segment_size
              \/ MempoolSize(slab) % segment_size # 0) =>
                /\ initResult'[slab.id] = "InvalidSlab"
                /\ UNCHANGED <<segments, slotLock, page_cache_2mb, page_cache_4kb,
                               page_cache_1gb, current_pinned_list>>]_vars

\* One slab was rejected as too small and one as no multiple of segment_size,
\* beside a slab that was registered.
C9_Witness ==
    /\ segments # [id \in {} |-> 0]
    /\ \E s1 \in RegSlabs, s2 \in RegSlabs :
          /\ initResult[s1.id] = "InvalidSlab"
          /\ MempoolSize(s1) < segment_size
          /\ initResult[s2.id] = "InvalidSlab"
          /\ MempoolSize(s2) > segment_size

\* First byte, second byte, an inner byte and last byte of every page of a
\* segment.
ProbesIn(seg) ==
    {seg.start_address + get_page_size_as_num(seg.page_size) * p + off :
        p \in 0 .. seg.num_pages - 1,
        off \in {0, 1, 64, get_page_size_as_num(seg.page_size) - 1}}

\* C10: after initialize_slab succeeds, every address inside a segment (page
\* boundaries, first and last byte included) resolves to that segment's id, for
\* each page size and with several slabs registered.
C10_AddressResolves ==
    \A id \in DOMAIN segments :
        \A a \in ProbesIn(segments[id]) : get_segment_id(a) = id

\* Slabs of 2 MiB pages and of 4 KiB pages are registered together, with
\* segments of several pages.
C10_Witness ==
    /\ initResult[SlabD.id] = "Ok"
    /\ initResult[SlabF.id] = "Ok"
    /\ \E id \in DOMAIN segments : segments[id].num_pages > 1

\* The reconciler is inside unpin_segment.
Draining == rpc \in {"unpinLock", "unpinBody"}

\* C5: under fair scheduling, with one completion for every Some reply, every
\* unpin_segment call of the reconciler returns, leaving the segment unpinned
\* and not quiescing, and it does not return while a Some reply is uncompleted.
C5_DrainReturns ==
    /\ Draining ~> ~Draining
    /\ [][(Draining /\ ~Draining') =>
             /\ Outstanding(rItem) = 0
             /\ ~segments'[rItem].pinned
             /\ ~segments'[rItem].quiescing]_vars

\* Whether address a lies inside segment seg.
Inside(a, seg) ==
    /\ seg.start_address <= a
    /\ a < seg.start_address + seg.num_pages * get_page_size_as_num(seg.page_size)

\* Addresses around every segment: one byte below its start, its last byte and
\* one byte past its end; and the buffers of the callers.
EdgeProbes ==
    Bufs \cup UNION {{segments[id].start_address - 1,
                      segments[id].start_address
                         + segments[id].num_pages * get_page_size_as_num(segments[id].page_size) - 1,
                      segments[id].start_address
                         + segments[id].num_pages * get_page_size_as_num(segments[id].page_size)} :
                        id \in DOMAIN segments}

C12_ContendedIsNone ==
    /\ [](\A w \in Workers : wpc[w] = "trylock" => ENABLED FastPathTryLock(w))
    /\ [][\A w \in Workers :
            (/\ wpc[w] = "trylock"
             /\ wpc'[w] # "trylock"
             /\ wid[w] \in DOMAIN segments
             /\ slotLock[wid[w]] # Free) =>
                /\ wpc'[w] = "idle"
                /\ lastReply' = "None"
                /\ segments' = segments
                /\ slotLock' = slotLock]_vars

\* A call is at its try_lock on a pinned, not quiescing segment whose mutex the
\* reconciler holds, after another call was answered None.
C12_Witness ==
    /\ lastReply = "None"
    /\ \E w \in Workers :
          /\ wpc[w] = "trylock"
          /\ slotLock[wid[w]] = Reconciler
          /\ segments[wid[w]].pinned
          /\ ~segments[wid[w]].quiescing

Min(a, b) == IF a <= b THEN a ELSE b

\* C13: for the MFU policy return_top_segments_to_pin returns a set of tracked
\* ids of size min(limit, number of tracked ids), each of its ids counting at
\* least as many accesses as every tracked id outside it.
C13_MfuTopIsTop ==
    policy = "Mfu" =>
        LET top == return_top_segments_to_pin
            tracked == DOMAIN access_counts
        IN /\ top \subseteq tracked
           /\ Cardinality(top) = Min(limit, Cardinality(tracked))
           /\ \A x \in top, y \in tracked \ top : access_counts[x] >= access_counts[y]

\* Limit 2 with three ids tied at the highest count and a fourth below them.
C13_Witness ==
    /\ limit = 2
    /\ DOMAIN access_counts = PolicyIds
    /\ access_counts[<<7, 3>>] = 1
    /\ \A id \in PolicyIds \ {<<7, 3>>} : access_counts[id] = MaxCount

\* C14: after reset() the MFU policy returns a set of at most limit ids that
\* depends only on the accesses made after the reset: two policies of the same
\* limit with different histories before reset() and the same accesses after
\* it return the same set.
C14_ResetForgetsHistory ==
    afterReset =>
        /\ Cardinality(MfuTop(access_counts, hashOrder, limit)) <= limit
        /\ MfuTop(access_counts, hashOrder, limit)
              = MfuTop(twin_access_counts, twin_hashOrder, limit)

\* C15: with the NoAlg policy return_top_segments_to_pin is the current pinned
\* list whatever was accessed, so a pass has nothing to pin or unpin, commits
\* the list it found, and no slot's pinning state ever changes.
C15_NoAlgPassIsNoOp ==
    /\ [](policy = "NoAlg" =>
             /\ return_top_segments_to_pin = current_pinned_list
             /\ rPin = {}
             /\ rUnpin = {})
    /\ [][policy = "NoAlg" =>
            /\ \A id \in DOMAIN segments : segments'[id].pinned = segments[id].pinned
            /\ (rpc = "commit" /\ rpc' = "idle") =>
                  /\ passOps = 0
                  /\ current_pinned_list' = current_pinned_list]_vars

\* A NoAlg pass is about to commit a list of segments pinned at start, after
\* fast-path calls on them were answered Some.
C15_Witness ==
    /\ policy = "NoAlg"
    /\ rpc = "commit"
    /\ passPrev = "dirty"
    /\ lastReply = "Some"
    /\ rNew # {}
    /\ \A id \in rNew : segments[id].pinned

\* C16: in pin-on-demand mode with the OnDemandLru policy and capacity 1, every
\* access to a registered segment returns Some (no call panics), the segment
\* accessed last is pinned after the access and at most one segment is pinned.
C16_OnDemandPinsAccessed ==
    (pin_on_demand /\ policy = "OnDemandLru" /\ limit = 1) =>
        /\ lastReply # "Panic"
        /\ \A w \in Workers : wpc[w] # "panicked"
        /\ timestamps # <<>> =>
              /\ segments[timestamps[Len(timestamps)]].pinned
              /\ Cardinality({id \in DOMAIN segments : segments[id].pinned}) <= 1

\* C17: a pass that meets an id absent from the registry skips it: no pass
\* ends with an error, so the reconciler loop keeps running.
C17_AbsentIdSkipped == rpc # "failed"

\* C19: the handles share one state: the clone has the segments of the
\* original and resolves every address as the original does.
C19_ClonesShareState ==
    cloned =>
        /\ clone_segments = DOMAIN segments
        /\ \A a \in EdgeProbes : clone_get_segment_id(a) = get_segment_id(a)

\* C18: record_io_completion decrements by exactly one the in_flight of the
\* slot its buffer resolves to and changes no other slot; with in_flight
\* already 0 the call is rejected and in_flight stays 0; with a buffer that
\* does not resolve it changes nothing.
C18_CompletionDecrementsOrRejects ==
    [][/\ \A w \in Workers :
            (wpc[w] = "completing" /\ wpc'[w] # "completing") =>
                IF segments[wid[w]].in_flight > 0
                THEN segments' = [segments EXCEPT ![wid[w]].in_flight = @ - 1]
                ELSE segments' = segments
       /\ \A w \in Workers, buf \in Bufs :
            (get_segment_id(buf) = NoId /\ StrayCompletionCall(w, buf)) =>
                UNCHANGED <<segments, slotLock, wpc, policyVars>>]_vars

\* C20: the metrics counters follow the fast path: hit + miss = total, and
\* once a call has returned, total counts it, with hit counting a Some reply
\* and miss a None reply.
C20_CountersFollowFastPath ==
    /\ hit_count + miss_count = total_count
    /\ lastReply # "none" => total_count >= 1
    /\ lastReply = "Some" => hit_count >= 1
    /\ lastReply = "None" => miss_count >= 1

\* C21: the size of an UnboundedLRUCache of capacity n is at most n after any
\* puts, and is n once n or more distinct keys have been put.
C21_SizeWithinCapacity ==
    /\ get_cache_size <= lru_len
    /\ Cardinality({lru_puts[i][1] : i \in 1 .. Len(lru_puts)}) >= lru_len
          => get_cache_size = lru_len

\* C22: after k > n puts of distinct keys and no get, get finds none of the
\* first k - n keys and finds each of the last n with the value put; and a put
\* into a cache holding n entries removes the least recently used entry, no
\* other, and returns it.
C22_EvictsLeastRecentlyUsed ==
    /\ [](LET k == Len(lru_puts) IN
            (/\ lru_gets = 0
             /\ k > lru_len
             /\ \A i, j \in 1 .. k : lru_puts[i][1] = lru_puts[j][1] => i = j)
            => \A i \in 1 .. k :
                  GetResult(lru_cache, lru_puts[i][1]) =
                     IF i <= k - lru_len THEN <<"None">> ELSE <<"Some", lru_puts[i][2]>>)
    /\ [][(lru_puts' # lru_puts /\ get_cache_size = lru_len)
            => /\ lru_cache # <<>>
               /\ lru_ret' = <<"Some", Head(lru_cache).key, Head(lru_cache).value>>
               /\ {lru_cache'[i].key : i \in 1 .. Len(lru_cache')} =
                     ({lru_cache[i].key : i \in 1 .. Len(lru_cache)} \ {Head(lru_cache).key})
                        \cup {lru_puts'[Len(lru_puts')][1]}
               /\ \A i \in 1 .. Len(lru_cache') : lru_cache'[i].key # Head(lru_cache).key]_vars

\* C23: within one update_pinned_list pass every unpin of a departing segment
\* is complete before the first pin of an arriving segment starts, and the
\* policy's current pinned list becomes the desired set only after every unpin
\* and every pin of the pass is done.
C23_UnpinsThenPinsThenCommit ==
    /\ [](rpc \in {"pinLock", "pinBody"}
            => /\ rUnpin = {}
               /\ \A x \in (rCur \ rNew) \cap DOMAIN segments : ~segments[x].pinned)
    /\ [][(rpc # "idle" /\ current_pinned_list' # current_pinned_list)
            => /\ rUnpin = {}
               /\ rPin = {}
               /\ current_pinned_list' = rNew
               /\ \A x \in (rCur \ rNew) \cap DOMAIN segments : ~segments[x].pinned
               /\ \A x \in (rNew \ rCur) \cap DOMAIN segments : segments[x].pinned]_vars

\* A pass with a departure and an arrival, at the arrival's pin.
C23_Witness ==
    /\ rpc = "pinBody"
    /\ rCur \ rNew # {}
    /\ rItem \in rNew \ rCur

\* C24: the segments of every slab initialize_slab accepted have one page or
\* more and segment_size bytes each, segment i starts i * segment_size bytes
\* into the slab, and the segments lie inside the slab, overlap nowhere and
\* cover it.
C24_SegmentsTileSlab ==
    \A slab \in RegSlabs :
        initResult[slab.id] = "Ok" =>
            LET ids == {id \in DOMAIN segments : id[1] = slab.id}
                offset(id) == segments[id].start_address - slab.start
                bytes(id) == segments[id].num_pages
                                * get_page_size_as_num(segments[id].page_size)
            IN /\ \A id \in ids :
                     /\ segments[id].num_pages > 0
                     /\ bytes(id) = segment_size
                     /\ offset(id) = id[2] * segment_size
                     /\ offset(id) >= 0
                     /\ offset(id) + bytes(id) <= MempoolSize(slab)
                     /\ \A other \in ids \ {id} :
                           \/ offset(id) + bytes(id) <= offset(other)
                           \/ offset(other) + bytes(other) <= offset(id)
               /\ Cardinality(ids) * segment_size = MempoolSize(slab)

\* C25: an initialize_slab call that succeeds either pins none of the slab's
\* segments (register_at_start = false) or pins segment i, and lists it in the
\* policy's current pinned set, exactly when the bytes pinned before the call
\* plus those of segments 0 .. i are at most pinning_limit.
C25_PinsAtStartWithinBudget ==
    [][\A slab \in RegSlabs :
          (initResult[slab.id] = "none" /\ initResult'[slab.id] = "Ok") =>
              \/ /\ \A id \in NewIds(slab) : ~segments'[id].pinned
                 /\ current_pinned_list' = current_pinned_list
              \/ \A id \in NewIds(slab) :
                    /\ segments'[id].pinned
                          <=> current_bytes_pinned + (id[2] + 1) * segment_size
                                 <= pinning_limit
                    /\ id \in current_pinned_list' <=> segments'[id].pinned]_vars

\* C26: Slab::pin_segment is invoked only on a slot that is not pinned and
\* Slab::unpin_segment only on a slot that is pinned.
C26_PinOnlyUnpinnedUnpinOnlyPinned ==
    [][/\ (rpc = "pinBody" /\ rpc' = "pin") => ~segments[rItem].pinned
       /\ (rpc = "unpinBody" /\ rpc' = "unpin") => segments[rItem].pinned]_vars

\* C27: a slot with quiescing set is pinned and is the slot an unpin_segment
\* call in progress works on; when that call returns the slot is neither
\* quiescing nor pinned; and a fast-path call that finds a slot pinned while no
\* unpin_segment works on it is answered Some.
C27_QuiescingOnlyWhileUnpinning ==
    /\ [](\A id \in DOMAIN segments :
             segments[id].quiescing
                => /\ segments[id].pinned
                   /\ rpc \in {"unpinLock", "unpinBody"}
                   /\ rItem = id)
    /\ [][/\ (rpc = "unpinBody" /\ rpc' = "unpin")
                => ~segments'[rItem].quiescing /\ ~segments'[rItem].pinned
          /\ \A w \in Workers :
                (/\ wpc[w] = "locked"
                 /\ wpc'[w] = "idle"
                 /\ segments[wid[w]].pinned
                 /\ rItem # wid[w])
                => lastReply' = "Some"]_vars

\* The drain of a quiescing segment has ended: unpin_segment holds the mutex
\* of a slot it marked quiescing and finds no I/O in flight.
C27_Witness ==
    /\ rpc = "unpinBody"
    /\ segments[rItem].quiescing
    /\ segments[rItem].in_flight = 0

\* C30: in periodic mode the slots that are pinned hold at most pinning_limit
\* bytes in every state, and while no update_pinned_list pass is in progress
\* they are the segments of the policy's current pinned list.
C30_PinnedSlotsWithinLimitAndListed ==
    LET pinned == {id \in DOMAIN segments : segments[id].pinned} IN
    /\ Cardinality(pinned) * segment_size <= pinning_limit
    /\ rpc = "idle" => pinned = current_pinned_list

\* C28: a thread that holds the policy (cache_builder) mutex is never at a
\* Slab::pin_segment or Slab::unpin_segment call, in the drain loop of
\* unpin_segment, or at the lock of a slot that pin_segment and unpin_segment
\* begin with.
C28_PolicyLockNotHeldAcrossPin ==
    \A t \in LockThreads :
        lk_owner["cache_builder"] = t
           => /\ LkInstr(t)[1] \notin {"register", "unregister_or_retry"}
              /\ LkInstr(t)[2] \notin {"segment", "new_segment"}

\* The reconciler is at Slab::pin_segment on the shared slot while a worker
\* holds the policy mutex.
C28_Witness ==
    /\ LkInstr(Reconciler) = <<"register", "segment">>
    /\ lk_owner["segment"] = Reconciler
    /\ lk_owner["cache_builder"] \in Workers

\* C29: no deadlock.  A thread that waits for a mutex does not hold that mutex,
\* and the thread that holds it is in a call and is not waiting for a mutex
\* another thread holds; no thread waits for a slot's mutex while it holds the
\* policy mutex.
C29_NoDeadlock ==
    LET waits(t) == LkInstr(t)[1] = "lock" /\ lk_owner[LkInstr(t)[2]] \in LockThreads IN
    \A t \in LockThreads :
        waits(t) =>
            LET holder == lk_owner[LkInstr(t)[2]] IN
            /\ holder # t
            /\ ~waits(holder)
            /\ LkInstr(holder)[1] \notin {"idle", "dead"}
            /\ LkInstr(t)[2] # "cache_builder" => lk_owner["cache_builder"] # t

\* record_io_completion waits for the mutex of the slot the reconciler is
\* draining, while initialize_slab holds its new slot's mutex and waits for the
\* policy mutex a worker holds.
C29_Witness ==
    /\ LkInstr("completer") = <<"lock", "segment">>
    /\ lk_owner["segment"] = Reconciler
    /\ LkInstr(Reconciler)[1] = "unregister_or_retry"
    /\ lk_seg.quiescing
    /\ lk_owner["new_segment"] = "initializer"
    /\ LkInstr("initializer") = <<"lock", "cache_builder">>
    /\ lk_owner["cache_builder"] \in Workers

====
